---- MODULE Spec2Model ----
(***************************************************************************)
(* Verification model of the ASSIST scrapers:                              *)
(*   IGETC.py / calgetc.py      GE-list scripts                            *)
(*   make_simple_transfers.py   articulation script                        *)
(*   get_institutions.py        institution directory script               *)
(* Pure rules (approval date, course name, transfer areas, one             *)
(* articulation entry) are operators applied by one action each; the       *)
(* script runs are state machines over fetch, transform and file output.   *)
(***************************************************************************)
EXTENDS Integers, Sequences, FiniteSets, TLC

VARIABLES
    pc,             \* position of the modelled call
    end_date_str,   \* argument of is_currently_approved
    utcnow,         \* value datetime.utcnow() returns (the system clock)
    approved,       \* what is_currently_approved returned or raised
    c,              \* one raw course entry of courseInformationList
    course_name,    \* the name built for c
    transfer_areas, \* the transferAreas list built for c
    articulations,  \* the decoded department groups of an agreement
    dept_i,         \* index of the department group the loop is in
    course_i,       \* index of the entry the loop is at within the group
    course,         \* the articulation entry under the loop body
    transfers,      \* simple_data["transfers"] built so far
    raised,         \* the exception that ended the call, "" when none
    script,         \* the script the process runs
    data,           \* the JSON document the API answers with
    outputs,        \* what each invocation so far left: exit status and file
    call,           \* the entry point running: main or store_data_in_file
    response,       \* what the HTTP GET met: its status and decoded body
    simple_data,    \* the head of simple_data (colleges, academic year)
    courses_out,    \* the courses_out list of the GE scripts, built so far
    parsed,         \* the parsed list of get_institutions.py, built so far
    result,         \* the value the transformation returned to its caller
    out_file,       \* the output file: untouched, truncated or written
    exit_code,      \* the exit status of the process, "running" before
    stdout,         \* the lines printed
    SAMPLE_DATA,    \* the module global of make_simple_transfers.py
    returned        \* how each finished store_data_in_file call ended

vars == <<pc, end_date_str, utcnow, approved, c, course_name, transfer_areas,
          articulations, dept_i, course_i, course, transfers, raised,
          script, data, outputs,
          call, response, simple_data, courses_out, parsed, result, out_file,
          exit_code, stdout, SAMPLE_DATA, returned>>

geVars == <<script, data, outputs>>

runVars == <<call, response, simple_data, courses_out, parsed, result, out_file,
             exit_code, stdout, SAMPLE_DATA, returned>>

articulationVars == <<articulations, dept_i, course_i, course, transfers, raised>>

approvalVars == <<end_date_str, utcnow, approved>>

courseVars == <<c, course_name, transfer_areas>>

(***************************************************************************)
(* Bounds of the model.                                                    *)
(***************************************************************************)
MaxYear == 2025

MaxLen == 2

MaxAreas == 3

MaxItems == 2

MaxDest == 2

MaxDepts == 2

MaxEntries == 2

MaxCourses == 2

MaxRuns == 2

MaxRecords == 2

MaxCalls == 2

(***************************************************************************)
(* Python values.  None and absent keys are kept apart from strings by a   *)
(* tag so that every value of one field has one shape.                     *)
(***************************************************************************)
Absent == [key |-> FALSE, none |-> TRUE, str |-> <<>>]

None == [key |-> TRUE, none |-> TRUE, str |-> <<>>]

Str(s) == [key |-> TRUE, none |-> FALSE, str |-> s]

\* dict.get(k): the value, None when the key is absent.
Get(v) == IF v.key THEN v ELSE None

\* Python truthiness of an optional string: None and "" are falsy.
Truthy(x) == ~x.none /\ x.str # <<>>

(***************************************************************************)
(* Date strings are sequences of lexical tokens: a digit group (num) or a  *)
(* separator character (sep).  "2024-02-29T23" is                          *)
(*   <<Num(2024), Sep("-"), Num(2), Sep("-"), Num(29), Sep("T"), Num(23)>> *)
(***************************************************************************)
Num(v) == [sep |-> "", num |-> v]

Sep(ch) == [sep |-> ch, num |-> 0]

IsNum(tok) == tok.sep = ""

IsLeap(y) == (y % 4 = 0) /\ ((y % 100 # 0) \/ (y % 400 = 0))

DaysInMonth(y, m) ==
    IF m = 2 THEN (IF IsLeap(y) THEN 29 ELSE 28)
    ELSE IF m \in {4, 6, 9, 11} THEN 30 ELSE 31

\* Position of a naive datetime on the time line, in hours; datetime
\* comparison orders by (year, month, day, hour), which this preserves.
Ordinal(y, m, d, h) == (((y * 12 + (m - 1)) * 31 + (d - 1)) * 24) + h

ValueError == [ok |-> FALSE, aware |-> FALSE, ord |-> 0]

\* The date part YYYY-MM-DD of datetime.fromisoformat.
DateOk(s) ==
    /\ Len(s) >= 5
    /\ IsNum(s[1]) /\ s[2] = Sep("-") /\ IsNum(s[3]) /\ s[4] = Sep("-") /\ IsNum(s[5])
    /\ s[1].num \in 1..9999
    /\ s[3].num \in 1..12
    /\ s[5].num \in 1..DaysInMonth(s[1].num, s[3].num)

\* The optional time part: a separator, HH, and an optional UTC offset
\* +HH:MM or -HH:MM, which makes the result timezone-aware.
TimeOk(r) ==
    \/ r = <<>>
    \/ /\ Len(r) \in {2, 6}
       /\ r[1] \in {Sep("T"), Sep(" ")}
       /\ IsNum(r[2]) /\ r[2].num \in 0..23
       /\ Len(r) = 6 =>
            /\ r[3] \in {Sep("+"), Sep("-")}
            /\ IsNum(r[4]) /\ r[4].num \in 0..23
            /\ r[5] = Sep(":")
            /\ IsNum(r[6]) /\ r[6].num \in 0..59

\* datetime.fromisoformat(s): the parsed datetime, or ValueError.
fromisoformat(s) ==
    IF ~DateOk(s) THEN ValueError
    ELSE LET r == SubSeq(s, 6, Len(s))
         IN  IF ~TimeOk(r) THEN ValueError
             ELSE [ok    |-> TRUE,
                   aware |-> Len(r) = 6,
                   ord   |-> Ordinal(s[1].num, s[3].num, s[5].num,
                                     IF r = <<>> THEN 0 ELSE r[2].num)]

\* is_currently_approved(end_date_str) evaluated when the clock reads now.
\* Comparing an aware datetime with the naive utcnow() raises TypeError,
\* which the except ValueError clause does not catch.
is_currently_approved(s, now) ==
    IF ~Truthy(s) THEN "True"
    ELSE LET end_dt == fromisoformat(s.str)
         IN  IF ~end_dt.ok THEN "False"
             ELSE IF end_dt.aware THEN "TypeError"
             ELSE IF end_dt.ord > now THEN "True" ELSE "False"

(***************************************************************************)
(* Inputs of the approval rule.                                            *)
(***************************************************************************)
Years == 2023..MaxYear

DateTokens(y, m, d) == <<Num(y), Sep("-"), Num(m), Sep("-"), Num(d)>>

TimeSuffixes ==
    {<<>>}
    \cup {<<Sep("T"), Num(h)>> : h \in {0, 23, 24}}
    \cup {<<Sep("T"), Num(h), Sep(sg), Num(o), Sep(":"), Num(0)>> :
            h \in {0, 23}, sg \in {"+", "-"}, o \in {0, 8}}
    \cup {<<Sep("x")>>, <<Sep("T"), Sep("x")>>}

DateStrings ==
    {DateTokens(y, m, d) \o t :
        y \in Years, m \in {1, 2, 12, 13}, d \in {1, 29, 30, 32}, t \in TimeSuffixes}
    \cup {<<Sep(" ")>>, <<Sep("x")>>, <<Num(2024)>>,
          <<Num(2024), Sep("-"), Num(1)>>,
          <<Num(2024), Sep("/"), Num(1), Sep("/"), Num(1)>>}

EndDates == {None, Str(<<>>)} \cup {Str(s) : s \in DateStrings}

Clock == {Ordinal(y, m, d, h) : y \in Years, m \in {1, 12}, d \in {1, 30}, h \in {0, 12}}

(***************************************************************************)
(* SpecApproval: one call of is_currently_approved.                        *)
(***************************************************************************)
Idle == "idle"

IdleArticulation ==
    /\ articulations = Idle /\ dept_i = Idle /\ course_i = Idle
    /\ course = Idle /\ transfers = Idle /\ raised = Idle

IdleGE == script = Idle /\ data = Idle /\ outputs = Idle

IdleApproval == end_date_str = Idle /\ utcnow = Idle /\ approved = Idle

IdleCourse == c = Idle /\ course_name = Idle /\ transfer_areas = Idle

IdleRun ==
    /\ call = Idle /\ response = Idle /\ simple_data = Idle /\ courses_out = Idle
    /\ parsed = Idle /\ result = Idle /\ out_file = Idle /\ exit_code = Idle
    /\ stdout = Idle /\ SAMPLE_DATA = Idle /\ returned = Idle

InitApproval ==
    /\ pc = "call"
    /\ end_date_str \in EndDates
    /\ utcnow \in Clock
    /\ approved = "pending"
    /\ IdleCourse /\ IdleArticulation /\ IdleGE /\ IdleRun

IsCurrentlyApproved ==
    /\ pc = "call"
    /\ approved' = is_currently_approved(end_date_str, utcnow)
    /\ pc' = "returned"
    /\ UNCHANGED <<end_date_str, utcnow, courseVars, articulationVars, geVars, runVars>>

NextApproval == IsCurrentlyApproved

SpecApproval == InitApproval /\ [][NextApproval]_vars

\* C1: is_currently_approved returns True for an absent or empty endDate,
\* and for every other string returns (never raises) True exactly when the
\* string parses to a datetime strictly after now, False when it does not
\* parse or is not after now.
C1_ApprovalRule ==
    pc = "returned" =>
        /\ approved \in {"True", "False"}
        /\ ~Truthy(end_date_str) => approved = "True"
        /\ Truthy(end_date_str) =>
             (approved = "True" <=>
                /\ fromisoformat(end_date_str.str).ok
                /\ fromisoformat(end_date_str.str).ord > utcnow)

(***************************************************************************)
(* Course names.  A string is a sequence of one-character strings.         *)
(***************************************************************************)
Chars == {" ", "-", "A", "\t"}

Whitespace == {" ", "\t"}

RECURSIVE lstrip(_, _)
lstrip(s, chars) ==
    IF s # <<>> /\ Head(s) \in chars THEN lstrip(Tail(s), chars) ELSE s

RECURSIVE rstrip(_, _)
rstrip(s, chars) ==
    IF s # <<>> /\ s[Len(s)] \in chars THEN rstrip(SubSeq(s, 1, Len(s) - 1), chars) ELSE s

\* str.strip(chars): both ends, every leading and trailing character of chars.
strip(s, chars) == rstrip(lstrip(s, chars), chars)

\* (c.get(k) or "").strip()
Trimmed(v) == strip(IF Truthy(Get(v)) THEN Get(v).str ELSE <<>>, Whitespace)

CourseNameOnlySpaces(raw) ==
    strip(Trimmed(raw.identifier) \o <<" ", "-", " ">> \o Trimmed(raw.courseTitle), {" "})

\* f"{identifier} - {title}".strip(" -")
CourseName(raw) ==
    strip(Trimmed(raw.identifier) \o <<" ", "-", " ">> \o Trimmed(raw.courseTitle), {" ", "-"})

(***************************************************************************)
(* Transfer areas.  A list value is absent, None or a sequence.            *)
(***************************************************************************)
AbsentList == [key |-> FALSE, none |-> TRUE, list |-> <<>>]

NoneList == [key |-> TRUE, none |-> TRUE, list |-> <<>>]

List(l) == [key |-> TRUE, none |-> FALSE, list |-> l]

\* (d.get(k) or []): the list, empty when the key is absent or null.
OrEmptyList(v) == IF v.key /\ ~v.none THEN v.list ELSE <<>>

RECURSIVE CodesUnfiltered(_)
CodesUnfiltered(areas) ==
    IF areas = <<>> THEN <<>>
    ELSE <<Get(Head(areas).code)>> \o CodesUnfiltered(Tail(areas))

\* [a.get("code") for a in areas if a.get("code")]
RECURSIVE Codes(_)
Codes(areas) ==
    IF areas = <<>> THEN <<>>
    ELSE (IF Truthy(Get(Head(areas).code)) THEN <<Get(Head(areas).code)>> ELSE <<>>)
         \o Codes(Tail(areas))

TransferAreasUnfiltered(raw) == CodesUnfiltered(OrEmptyList(raw.transferAreas))

\* lines 75-79 of IGETC.py: the comprehension over (c.get("transferAreas") or []).
TransferAreas(raw) == Codes(OrEmptyList(raw.transferAreas))

(***************************************************************************)
(* Inputs: raw course entries.                                             *)
(***************************************************************************)
RECURSIVE SeqsUpTo(_, _)
SeqsUpTo(S, n) ==
    IF n = 0 THEN {<<>>}
    ELSE LET shorter == SeqsUpTo(S, n - 1)
         IN  shorter \cup {Append(q, x) : q \in shorter, x \in S}

Texts == {Absent, None} \cup {Str(s) : s \in SeqsUpTo(Chars, MaxLen)}

AreaCodes == {Absent, None, Str(<<>>), Str(<<"A", "1">>), Str(<<"B", "2">>)}

AreaLists ==
    {AbsentList, NoneList}
    \cup {List(l) : l \in SeqsUpTo({[code |-> k] : k \in AreaCodes}, MaxAreas)}

RawCourse(id, t, areas, e) ==
    [identifier |-> id, courseTitle |-> t, transferAreas |-> areas, endDate |-> e]

(***************************************************************************)
(* SpecName: the course-name lines of the GE-list loop body.               *)
(***************************************************************************)
InitName ==
    /\ pc = "name"
    /\ c \in {RawCourse(id, t, AbsentList, Absent) : id \in Texts, t \in Texts}
    /\ course_name = <<>>
    /\ transfer_areas = Idle
    /\ IdleApproval /\ IdleArticulation /\ IdleGE /\ IdleRun

BuildCourseName ==
    /\ pc = "name"
    /\ course_name' = CourseName(c)
    /\ pc' = "named"
    /\ UNCHANGED <<c, transfer_areas, approvalVars, articulationVars, geVars, runVars>>

NextName == BuildCourseName

SpecName == InitName /\ [][NextName]_vars

\* x is s without its longest prefix and suffix made of characters of chars.
IsCore(x, s, chars) ==
    \E a \in 0..Len(s) :
        /\ a + Len(x) <= Len(s)
        /\ x = SubSeq(s, a + 1, a + Len(x))
        /\ \A k \in 1..a : s[k] \in chars
        /\ \A k \in (a + Len(x) + 1)..Len(s) : s[k] \in chars
        /\ x # <<>> => (x[1] \notin chars /\ x[Len(x)] \notin chars)

\* The individually trimmed part a raw field contributes (absent as empty).
Part(v) ==
    LET s == IF v.key /\ ~v.none THEN v.str ELSE <<>>
    IN  CHOOSE x \in {SubSeq(s, a, b) : a \in 1..(Len(s) + 1), b \in 0..Len(s)} :
            IsCore(x, s, Whitespace)

Joined(raw) == Part(raw.identifier) \o <<" ", "-", " ">> \o Part(raw.courseTitle)

\* C8 as stated: course is the joined name without leading and trailing
\* spaces and hyphens; identifier only gives the bare identifier, title only
\* the bare title, both empty the empty string; course never starts or ends
\* with a space or hyphen and is never " - ".
C8_CourseNameAsStated ==
    pc = "named" =>
        /\ IsCore(course_name, Joined(c), {" ", "-"})
        /\ (Part(c.courseTitle) = <<>>) => course_name = Part(c.identifier)
        /\ (Part(c.identifier) = <<>>) => course_name = Part(c.courseTitle)
        /\ course_name # <<>> =>
             (course_name[1] \notin {" ", "-"} /\ course_name[Len(course_name)] \notin {" ", "-"})
        /\ course_name # <<" ", "-", " ">>

\* C8 amended: as stated, except that a part standing alone is rendered
\* without its own leading and trailing spaces and hyphens (it is the bare
\* part only when the part neither starts nor ends with a hyphen).
C8_CourseName ==
    pc = "named" =>
        /\ IsCore(course_name, Joined(c), {" ", "-"})
        /\ (Part(c.courseTitle) = <<>>) =>
             IsCore(course_name, Part(c.identifier), {" ", "-"})
        /\ (Part(c.identifier) = <<>>) =>
             IsCore(course_name, Part(c.courseTitle), {" ", "-"})
        /\ (Part(c.identifier) = <<>> /\ Part(c.courseTitle) = <<>>) => course_name = <<>>
        /\ course_name # <<>> =>
             (course_name[1] \notin {" ", "-"} /\ course_name[Len(course_name)] \notin {" ", "-"})
        /\ course_name # <<" ", "-", " ">>

\* An identifier that ends in a hyphen, alone, loses the hyphen.
C8_Witness ==
    /\ pc = "named"
    /\ c.identifier = Str(<<"A", "-">>)
    /\ c.courseTitle \in {Absent, None, Str(<<>>), Str(<<" ">>)}
    /\ course_name = <<"A">>

(***************************************************************************)
(* SpecAreas: the transferAreas comprehension of the GE-list loop body.    *)
(***************************************************************************)
InitAreas ==
    /\ pc = "areas"
    /\ c \in {RawCourse(Absent, Absent, areas, Absent) : areas \in AreaLists}
    /\ transfer_areas = <<>>
    /\ course_name = Idle
    /\ IdleApproval /\ IdleArticulation /\ IdleGE /\ IdleRun

BuildTransferAreas ==
    /\ pc = "areas"
    /\ transfer_areas' = TransferAreas(c)
    /\ pc' = "listed"
    /\ UNCHANGED <<c, course_name, approvalVars, articulationVars, geVars, runVars>>

NextAreas == BuildTransferAreas

SpecAreas == InitAreas /\ [][NextAreas]_vars

\* The raw entries (positions) whose code is present and non-empty.
Coded(raw) ==
    LET l == IF raw.transferAreas.key /\ ~raw.transferAreas.none
             THEN raw.transferAreas.list ELSE <<>>
    IN  {k \in 1..Len(l) : l[k].code.key /\ ~l[k].code.none /\ l[k].code.str # <<>>}

\* C9: transferAreas is the sequence of the present, non-empty codes of the
\* raw entries in their original order; it holds no null, absent or empty
\* code, and an absent or null raw list gives the empty sequence.
C9_TransferAreas ==
    pc = "listed" =>
        /\ Len(transfer_areas) = Cardinality(Coded(c))
        /\ \A j \in 1..Len(transfer_areas) :
             /\ transfer_areas[j].key /\ ~transfer_areas[j].none
             /\ transfer_areas[j].str # <<>>
             /\ \E k \in Coded(c) :
                  /\ Cardinality({g \in Coded(c) : g <= k}) = j
                  /\ transfer_areas[j] = c.transferAreas.list[k].code
        /\ (~c.transferAreas.key \/ c.transferAreas.none) => transfer_areas = <<>>

\* [{"code":"A1"},{},{"code":"B2"}] gives ["A1","B2"].
C9_Witness ==
    /\ pc = "listed"
    /\ c.transferAreas = List(<<[code |-> Str(<<"A", "1">>)], [code |-> Absent],
                                [code |-> Str(<<"B", "2">>)]>>)
    /\ transfer_areas = <<Str(<<"A", "1">>), Str(<<"B", "2">>)>>

(***************************************************************************)
(* Articulation entries (make_simple_transfers.py).                        *)
(***************************************************************************)
AbsentNum == [key |-> FALSE, none |-> TRUE, num |-> 0]

NoneNum == [key |-> TRUE, none |-> TRUE, num |-> 0]

Number(n) == [key |-> TRUE, none |-> FALSE, num |-> n]

\* The values units takes in the output: the text "N/A", null, or a number.
UnitsNA == [text |-> "N/A", none |-> FALSE, num |-> 0]

UnitsOf(v) == [text |-> "", none |-> v.none, num |-> v.num]

\* course_info.get('minUnits', 'N/A'): the default only when the key is absent.
Units(v) == IF v.key THEN UnitsOf(v) ELSE UnitsNA

AbsentSA == [key |-> FALSE, none |-> TRUE, items |-> AbsentList]

NoneSA == [key |-> TRUE, none |-> TRUE, items |-> AbsentList]

SA(items) == [key |-> TRUE, none |-> FALSE, items |-> items]

NoEquivalent == <<"No equivalent course">>

\* f"{to_course['prefix']} {to_course['courseNumber']}: {to_course['courseTitle']}"
Render(to_course) ==
    to_course.prefix \o " " \o to_course.courseNumber \o ": " \o to_course.courseTitle

\* for to_course in item['items']: transfers_to.append(...)
RECURSIVE Rendered(_)
Rendered(l) == IF l = <<>> THEN <<>> ELSE <<Render(Head(l))>> \o Rendered(Tail(l))

\* for item in items: if 'items' in item: ...
RECURSIVE Collect(_)
Collect(items) ==
    IF items = <<>> THEN <<>>
    ELSE (IF Head(items).items.key THEN Rendered(Head(items).items.list) ELSE <<>>)
         \o Collect(Tail(items))

\* Iterating item['items'] when it is null raises TypeError.
IterRaises(items) == \E k \in 1..Len(items) : items[k].items.key /\ items[k].items.none

\* course.get('sendingArticulation') and course['sendingArticulation'].get('items')
HasMapping(entry) ==
    /\ entry.sendingArticulation.key /\ ~entry.sendingArticulation.none
    /\ OrEmptyList(entry.sendingArticulation.items) # <<>>

TransfersToNoFallback(entry) ==
    IF HasMapping(entry) THEN Collect(entry.sendingArticulation.items.list)
    ELSE NoEquivalent

\* lines 60-68: the destination list, with the sentinel when it is empty.
TransfersTo(entry) ==
    IF HasMapping(entry)
    THEN LET transfers_to == Collect(entry.sendingArticulation.items.list)
         IN  IF transfers_to # <<>> THEN transfers_to ELSE NoEquivalent
    ELSE NoEquivalent

\* lines 50-68: the transfer built for one entry of type Course.
Transfer(entry) ==
    [from_course  |-> entry.course.prefix \o " " \o entry.course.courseNumber,
     course_title |-> entry.course.courseTitle,
     units        |-> Units(entry.course.minUnits),
     department   |-> entry.course.department,
     transfers_to |-> TransfersTo(entry)]

BodyNoTypeCheck(entry) ==
    IF HasMapping(entry) /\ IterRaises(entry.sendingArticulation.items.list)
    THEN [raised |-> "TypeError", out |-> <<>>]
    ELSE [raised |-> "", out |-> <<Transfer(entry)>>]

\* lines 49-70: the loop body; what it appends to transfers, or raises.
Body(entry) ==
    IF entry.type # "Course" THEN [raised |-> "", out |-> <<>>]
    ELSE IF HasMapping(entry) /\ IterRaises(entry.sendingArticulation.items.list)
    THEN [raised |-> "TypeError", out |-> <<>>]
    ELSE [raised |-> "", out |-> <<Transfer(entry)>>]

(***************************************************************************)
(* Inputs: articulation entries.                                           *)
(***************************************************************************)
ToCourses ==
    {[prefix |-> "CS", courseNumber |-> "101", courseTitle |-> "Intro"],
     [prefix |-> "MATH", courseNumber |-> "1A", courseTitle |-> "Calculus"]}

ListValues(S, n) == {AbsentList, NoneList} \cup {List(l) : l \in SeqsUpTo(S, n)}

Items == {[items |-> l] : l \in ListValues(ToCourses, MaxDest)}

SendingArticulations == {AbsentSA, NoneSA} \cup {SA(l) : l \in ListValues(Items, MaxItems)}

CourseInfo(p, u) ==
    [prefix |-> p, courseNumber |-> "10", courseTitle |-> "Biology",
     minUnits |-> u, department |-> "Science"]

Entry(t, p, u, sa) == [type |-> t, course |-> CourseInfo(p, u), sendingArticulation |-> sa]

EntryTypes == {"Course", "Series"}

MinUnits == {AbsentNum, NoneNum, Number(0), Number(3)}

(***************************************************************************)
(* SpecEntry: the loop body of get_transfer_data on one entry.             *)
(***************************************************************************)
InitEntry ==
    /\ pc = "entry"
    /\ course \in {Entry(t, "BIO", u, sa) :
                     t \in EntryTypes, u \in MinUnits, sa \in SendingArticulations}
    /\ transfers = <<>>
    /\ raised = ""
    /\ articulations = Idle /\ dept_i = Idle /\ course_i = Idle
    /\ IdleCourse /\ IdleApproval /\ IdleGE /\ IdleRun

LoopBody ==
    /\ pc = "entry"
    /\ transfers' = transfers \o Body(course).out
    /\ raised' = Body(course).raised
    /\ pc' = "entry_done"
    /\ UNCHANGED <<course, articulations, dept_i, course_i, approvalVars, courseVars, geVars, runVars>>

NextEntry == LoopBody

SpecEntry == InitEntry /\ [][NextEntry]_vars

\* The nested items list of item k of the entry, empty when it has none.
Nested(entry, k) ==
    LET item == entry.sendingArticulation.items.list[k]
    IN  IF item.items.key /\ ~item.items.none THEN item.items.list ELSE <<>>

\* The destination courses of an entry, as (item, position) pairs.
Dest(entry) ==
    IF entry.sendingArticulation.key /\ ~entry.sendingArticulation.none
       /\ entry.sendingArticulation.items.key /\ ~entry.sendingArticulation.items.none
    THEN UNION {{<<i, j>> : j \in 1..Len(Nested(entry, i))} :
                  i \in 1..Len(entry.sendingArticulation.items.list)}
    ELSE {}

Before(q, p) == q[1] < p[1] \/ (q[1] = p[1] /\ q[2] <= p[2])

\* An item whose nested items is null: not a list the loop can iterate.
HasNullNested(entry) ==
    \E k \in 1..Len(entry.sendingArticulation.items.list) :
        /\ entry.sendingArticulation.items.list[k].items.key
        /\ entry.sendingArticulation.items.list[k].items.none

Emitted == pc = "entry_done" /\ course.type = "Course" /\ raised = ""

C7_UnitsAsStated ==
    Emitted =>
        /\ (course.course.minUnits.key /\ ~course.course.minUnits.none) =>
             transfers[1].units = [text |-> "", none |-> FALSE, num |-> course.course.minUnits.num]
        /\ (~course.course.minUnits.key \/ course.course.minUnits.none) =>
             transfers[1].units = [text |-> "N/A", none |-> FALSE, num |-> 0]
        /\ ~transfers[1].units.none

(***************************************************************************)
(* SpecTransfers: the two nested loops of get_transfer_data, one iteration *)
(* of the inner loop per step.                                             *)
(***************************************************************************)
LoopEntries ==
    {Entry("Course", "BIO", Number(3), AbsentSA),
     Entry("Course", "CHEM", Number(3), AbsentSA),
     Entry("Series", "BIO", Number(3), AbsentSA)}

Departments(entries, n) == {[articulations |-> l] : l \in SeqsUpTo(entries, n)}

InitTransfers ==
    /\ pc = "loop"
    /\ articulations \in SeqsUpTo(Departments(LoopEntries, MaxEntries), MaxDepts)
    /\ dept_i = 1
    /\ course_i = 1
    /\ course = Idle
    /\ transfers = <<>>
    /\ raised = ""
    /\ IdleCourse /\ IdleApproval /\ IdleGE /\ IdleRun

\* One pass through the body of "for course in dept['articulations']".
Iterate ==
    /\ pc = "loop"
    /\ dept_i <= Len(articulations)
    /\ course_i <= Len(articulations[dept_i].articulations)
    /\ LET entry == articulations[dept_i].articulations[course_i]
       IN  /\ course' = entry
           /\ transfers' = transfers \o Body(entry).out
           /\ raised' = Body(entry).raised
           /\ pc' = IF Body(entry).raised = "" THEN "loop" ELSE "raised"
    /\ course_i' = course_i + 1
    /\ UNCHANGED <<articulations, dept_i, approvalVars, courseVars, geVars, runVars>>

\* The inner loop is exhausted: "for dept in articulations" moves on.
NextDept ==
    /\ pc = "loop"
    /\ dept_i <= Len(articulations)
    /\ course_i > Len(articulations[dept_i].articulations)
    /\ dept_i' = dept_i + 1
    /\ course_i' = 1
    /\ UNCHANGED <<pc, articulations, course, transfers, raised, approvalVars, courseVars, geVars, runVars>>

\* The outer loop is exhausted: return simple_data.
ReturnTransfers ==
    /\ pc = "loop"
    /\ dept_i > Len(articulations)
    /\ pc' = "loop_done"
    /\ UNCHANGED <<articulationVars, approvalVars, courseVars, geVars, runVars>>

NextTransfers == Iterate \/ NextDept \/ ReturnTransfers

SpecTransfers == InitTransfers /\ [][NextTransfers]_vars

\* The entries of type Course, as (group, position) pairs.
CourseEntries ==
    UNION {{<<d, e>> : e \in {k \in 1..Len(articulations[d].articulations) :
                                articulations[d].articulations[k].type = "Course"}} :
             d \in 1..Len(articulations)}

\* C6: transfers holds exactly one entry for each entry of type Course,
\* ordered by department group and then by position in the group; entries
\* of another type are skipped without an error, so the length of transfers
\* is the number of Course entries.
C6_Transfers ==
    pc = "loop_done" =>
        /\ raised = ""
        /\ Len(transfers) = Cardinality(CourseEntries)
        /\ \A p \in CourseEntries :
             LET entry == articulations[p[1]].articulations[p[2]]
                 k == Cardinality({q \in CourseEntries : Before(q, p)})
             IN  /\ transfers[k].from_course = entry.course.prefix \o " " \o entry.course.courseNumber
                 /\ transfers[k].department = entry.course.department

\* Two groups: a skipped entry and a course, then another course.
C6_Witness ==
    /\ pc = "loop_done"
    /\ Len(articulations) = 2
    /\ Len(articulations[1].articulations) = 2
    /\ articulations[1].articulations[1].type = "Series"
    /\ articulations[1].articulations[2] = Entry("Course", "CHEM", Number(3), AbsentSA)
    /\ articulations[2].articulations = <<Entry("Course", "BIO", Number(3), AbsentSA)>>
    /\ Len(transfers) = 2
    /\ transfers[1].from_course = "CHEM 10"
    /\ transfers[2].from_course = "BIO 10"

(***************************************************************************)
(* SpecGE: the GE-list scripts (IGETC.py, calgetc.py) invoked repeatedly   *)
(* on the same API response while the clock advances.                      *)
(***************************************************************************)
\* lines 83-91 of IGETC.py, 84-92 of calgetc.py: one normalized course.
CourseOut(raw, now) ==
    [course              |-> CourseName(raw),
     transferAreas       |-> TransferAreas(raw),
     approvedDate        |-> Get(raw.beginDate),
     approvedTerm        |-> Get(raw.beginTermCode),
     removedDate         |-> Get(raw.endDate),
     removedTerm         |-> Get(raw.endTermCode),
     isCurrentlyApproved |-> is_currently_approved(Get(raw.endDate), now)]

RECURSIVE CoursesOut(_, _)
CoursesOut(l, now) ==
    IF l = <<>> THEN <<>> ELSE <<CourseOut(Head(l), now)>> \o CoursesOut(Tail(l), now)

\* The --listType default of each script.
ListType(scr) == IF scr = "calgetc.py" THEN <<"CALGETC">> ELSE <<"CSUGE">>

\* The result dict of get_csu_ge_courses (IGETC.py) and get_transfer_courses
\* (calgetc.py, which adds listTypeRequested) around the courses built.
GEDict(scr, doc, courses) ==
    [institutionName   |-> Get(doc.institutionName),
     academicYear      |-> Get(doc.academicYear),
     listType          |-> Get(doc.listType),
     listTypeRequested |-> IF scr = "calgetc.py" THEN Str(ListType(scr)) ELSE Absent,
     courses           |-> courses]

GEResult(scr, doc, now) ==
    GEDict(scr, doc, CoursesOut(OrEmptyList(doc.courseInformationList), now))

\* The call raises when is_currently_approved does.
GERaises(doc, now) ==
    \E k \in 1..Len(OrEmptyList(doc.courseInformationList)) :
        is_currently_approved(Get(OrEmptyList(doc.courseInformationList)[k].endDate), now)
            = "TypeError"

\* main: the result is built, then the file is opened and written.
MainGE(scr, doc, now) ==
    IF GERaises(doc, now)
    THEN [exit |-> 1, written |-> FALSE, file |-> GEDict(scr, doc, <<>>)]
    ELSE [exit |-> 0, written |-> TRUE, file |-> GEResult(scr, doc, now)]

GECourse(e) ==
    [identifier |-> Str(<<"A">>), courseTitle |-> Str(<<"A">>),
     transferAreas |-> List(<<[code |-> Str(<<"A", "1">>)]>>),
     beginDate |-> Str(DateTokens(2020, 8, 1)), beginTermCode |-> Absent,
     endDate |-> e, endTermCode |-> Absent]

GEEndDates ==
    {Absent, None, Str(<<>>), Str(<<Sep("x")>>),
     Str(DateTokens(2024, 1, 30)),
     Str(DateTokens(2024, 12, 1) \o <<Sep("T"), Num(0), Sep("+"), Num(0), Sep(":"), Num(0)>>)}

GEDocuments ==
    {[institutionName |-> Str(<<"A">>), academicYear |-> Absent, listType |-> None,
      courseInformationList |-> l] :
        l \in ListValues({GECourse(e) : e \in GEEndDates}, MaxCourses)}

InitGE ==
    /\ pc = "shell"
    /\ script \in {"IGETC.py", "calgetc.py"}
    /\ data \in GEDocuments
    /\ utcnow \in Clock
    /\ outputs = <<>>
    /\ end_date_str = Idle /\ approved = Idle
    /\ IdleCourse /\ IdleArticulation /\ IdleRun

\* Time passes between invocations.
Tick ==
    /\ pc = "shell"
    /\ \E t \in Clock : t > utcnow /\ utcnow' = t
    /\ UNCHANGED <<pc, end_date_str, approved, courseVars, articulationVars, geVars, runVars>>

\* One invocation of the script, the API answering with data.
InvokeGE ==
    /\ pc = "shell"
    /\ Len(outputs) < MaxRuns
    /\ outputs' = Append(outputs, MainGE(script, data, utcnow))
    /\ UNCHANGED <<pc, approvalVars, courseVars, articulationVars, script, data, runVars>>

NextGE == Tick \/ InvokeGE

SpecGE == InitGE /\ [][NextGE]_vars

\* C4: two invocations with the same arguments and the same API response
\* write identical files, whatever the time each runs at.
C4_SameFileAsStated ==
    \A i \in 1..Len(outputs) : \A j \in 1..Len(outputs) :
        /\ outputs[i].written = outputs[j].written
        /\ (outputs[i].written /\ outputs[j].written) => outputs[i].file = outputs[j].file

(***************************************************************************)
(* SpecRun: one process per script.  main fetches, transforms, then opens  *)
(* and writes the output file; the articulation module may instead be      *)
(* imported and store_data_in_file called repeatedly.                      *)
(***************************************************************************)
GEScripts == {"IGETC.py", "calgetc.py"}

Articulation == "make_simple_transfers.py"

Institutions == "get_institutions.py"

NoneResult == [none |-> TRUE, value |-> <<>>]

Value(v) == [none |-> FALSE, value |-> v]

\* How the HTTP GET can fail: no connection or a timeout, a non-2xx status
\* (raise_for_status), a body that is not JSON (response.json()).
Failures == {"network", "http_error", "bad_json"}

Exception(f) ==
    IF f = "network" THEN "ConnectionError"
    ELSE IF f = "http_error" THEN "HTTPError" ELSE "JSONDecodeError"

(***************************************************************************)
(* The articulation document: raw_data['result'] holds four JSON-encoded   *)
(* strings, each absent, not decodable, or decoding to a value.            *)
(***************************************************************************)
Encoded(v) == [key |-> TRUE, valid |-> TRUE, value |-> v]

NotJson(v) == [key |-> TRUE, valid |-> FALSE, value |-> v]

MissingKey(v) == [key |-> FALSE, valid |-> FALSE, value |-> v]

Variants(v) == {Encoded(v), NotJson(v), MissingKey(v)}

College(n) == [names |-> <<[name |-> n]>>]

NoNames == [names |-> <<>>]

ArtResult(recv, send, year, arts) ==
    [key |-> TRUE, receivingInstitution |-> recv, sendingInstitution |-> send,
     academicYear |-> year, articulations |-> arts]

GoodResult(arts) ==
    ArtResult(Encoded(College("State University")), Encoded(College("City College")),
              Encoded([code |-> Str(<<"2", "4">>)]), Encoded(arts))

NoResult == [GoodResult(<<>>) EXCEPT !.key = FALSE]

\* A decoded body: json tells the JSON value it is ("object" a non-empty
\* object, the others the falsy values), "None" what fetch_api_data returns
\* after an error.
ArtBody(tag, res) == [json |-> tag, result |-> res]

FalsyJson == {"{}", "[]", "null", "0", "false"}

RaisingEntry == Entry("Course", "PHYS", Number(4), SA(List(<<[items |-> NoneList]>>)))

MappedEntry ==
    Entry("Course", "CHEM", AbsentNum,
          SA(List(<<[items |-> List(<<[prefix |-> "CS", courseNumber |-> "101",
                                       courseTitle |-> "Intro"]>>)]>>)))

RunArticulations ==
    {<<>>,
     <<[articulations |-> <<MappedEntry>>]>>,
     <<[articulations |-> <<Entry("Series", "BIO", Number(3), AbsentSA), MappedEntry>>]>>,
     <<[articulations |-> <<MappedEntry>>], [articulations |-> <<RaisingEntry>>]>>}

ArtBodies ==
    {ArtBody(t, NoResult) : t \in FalsyJson}
    \cup {ArtBody("object", NoResult)}
    \cup {ArtBody("object", GoodResult(a)) : a \in RunArticulations}
    \cup {ArtBody("object", [GoodResult(<<>>) EXCEPT !.receivingInstitution = v]) :
            v \in Variants(College("State University")) \cup {Encoded(NoNames)}}
    \cup {ArtBody("object", [GoodResult(<<>>) EXCEPT !.sendingInstitution = v]) :
            v \in Variants(College("City College")) \cup {Encoded(NoNames)}}
    \cup {ArtBody("object", [GoodResult(<<>>) EXCEPT !.academicYear = v]) :
            v \in Variants([code |-> Str(<<"2", "4">>)]) \cup {Encoded([code |-> Absent])}}
    \cup {ArtBody("object", [GoodResult(<<>>) EXCEPT !.articulations = v]) :
            v \in Variants(<<>>)}

RawDataIsNone(body) == body.json = "None"

\* "not raw_data": None and every falsy JSON value.
NotRawData(body) == body.json # "object"

FirstError(errors) ==
    IF \A k \in 1..Len(errors) : errors[k] = "" THEN ""
    ELSE errors[CHOOSE k \in 1..Len(errors) :
                  errors[k] # "" /\ \A j \in 1..(k - 1) : errors[j] = ""]

\* json.loads(result[k]): KeyError without the key, JSONDecodeError on bad text.
LoadsError(v) == IF ~v.key THEN "KeyError" ELSE IF ~v.valid THEN "JSONDecodeError" ELSE ""

\* lines 30-36: result = raw_data['result'] and the four json.loads.
DecodeError(res) ==
    IF ~res.key THEN "KeyError"
    ELSE FirstError(<<LoadsError(res.receivingInstitution), LoadsError(res.sendingInstitution),
                      LoadsError(res.academicYear), LoadsError(res.articulations)>>)

\* lines 39-44: names[0] of an empty list raises IndexError, a missing code KeyError.
HeaderError(res) ==
    FirstError(<<IF res.sendingInstitution.value.names = <<>> THEN "IndexError" ELSE "",
                 IF res.receivingInstitution.value.names = <<>> THEN "IndexError" ELSE "",
                 IF ~res.academicYear.value.code.key THEN "KeyError" ELSE "">>)

Header(res) ==
    [from_college  |-> res.sendingInstitution.value.names[1].name,
     to_college    |-> res.receivingInstitution.value.names[1].name,
     academic_year |-> res.academicYear.value.code]

\* simple_data as returned: the head and the transfers appended to it.
SimpleData(head, trs) ==
    [from_college |-> head.from_college, to_college |-> head.to_college,
     academic_year |-> head.academic_year, transfers |-> trs]

(***************************************************************************)
(* The institution directory: a list of institution records.               *)
(***************************************************************************)
Inst(names, id) == [names |-> names, id |-> id]

InstRecords ==
    {Inst(AbsentList, Number(1)), Inst(List(<<>>), Number(2)),
     Inst(List(<<[name |-> "City College"]>>), Number(3)),
     Inst(List(<<[name |-> "State University"]>>), AbsentNum)}

\* inst["names"][0]["name"] if inst.get("names") else None, and inst["id"].
InstOut(inst) ==
    [schoolName |-> IF OrEmptyList(inst.names) # <<>>
                    THEN [none |-> FALSE, name |-> inst.names.list[1].name]
                    ELSE [none |-> TRUE, name |-> ""],
     code       |-> inst.id.num]

InstError(inst) == IF ~inst.id.key THEN "KeyError" ELSE ""

Bodies(scr) ==
    IF scr \in GEScripts THEN
        {[institutionName |-> Str(<<"A">>), academicYear |-> Absent, listType |-> None,
          courseInformationList |-> l] :
            l \in ListValues({GECourse(e) : e \in GEEndDates}, MaxRecords)}
    ELSE IF scr = Articulation THEN ArtBodies
    ELSE SeqsUpTo(InstRecords, MaxRecords)

Untouched == [state |-> "untouched", content |-> NoneResult]

Locals ==
    /\ response = [status |-> "none", body |-> <<>>]
    /\ data = <<>>
    /\ articulations = <<>> /\ dept_i = 1 /\ course_i = 1 /\ course = Idle
    /\ transfers = <<>> /\ raised = ""
    /\ simple_data = NoneResult /\ courses_out = <<>> /\ parsed = <<>>
    /\ result = NoneResult

InitRun ==
    /\ pc = "fetch"
    /\ script \in GEScripts \cup {Articulation, Institutions}
    /\ call \in (IF script = Articulation THEN {"main", "store_data_in_file"} ELSE {"main"})
    /\ utcnow \in (IF script \in GEScripts THEN Clock ELSE {Ordinal(2024, 1, 1, 0)})
    /\ Locals
    /\ out_file = Untouched
    /\ exit_code = "running"
    /\ stdout = <<>>
    /\ SAMPLE_DATA = NoneResult
    /\ returned = <<>>
    /\ end_date_str = Idle /\ approved = Idle /\ outputs = Idle
    /\ IdleCourse

loopVars == <<articulations, dept_i, course_i, course, transfers>>

builtVars == <<simple_data, courses_out, parsed, result>>

processVars == <<out_file, exit_code, stdout, SAMPLE_DATA, returned>>

constVars == <<end_date_str, approved, outputs, courseVars, script, call, utcnow>>

\* The GET succeeds and the body decodes.
FetchOk ==
    /\ pc = "fetch"
    /\ \E body \in Bodies(script) :
         /\ response' = [status |-> "ok", body |-> body]
         /\ data' = body
    /\ pc' = IF script = Articulation THEN "check" ELSE "transform"
    /\ UNCHANGED <<raised, loopVars, builtVars, processVars, constVars>>

\* The GET fails and the exception leaves fetch_api_data: always in the GE
\* and institution scripts; in the articulation script only for a body that
\* is not JSON, when response.json() raises a plain ValueError (requests
\* older than 2.27) rather than a RequestException.
FetchRaises ==
    /\ pc = "fetch"
    /\ \E f \in Failures :
         /\ script = Articulation => f = "bad_json"
         /\ response' = [status |-> f, body |-> <<>>]
         /\ raised' = Exception(f)
    /\ pc' = "raised"
    /\ UNCHANGED <<data, loopVars, builtVars, processVars, constVars>>

\* make_simple_transfers.fetch_api_data catches RequestException, prints
\* the error and returns None.
FetchSwallowed ==
    /\ pc = "fetch"
    /\ script = Articulation
    /\ \E f \in Failures : response' = [status |-> f, body |-> <<>>]
    /\ data' = ArtBody("None", NoResult)
    /\ stdout' = Append(stdout, "Error fetching data")
    /\ pc' = "check"
    /\ UNCHANGED <<raised, loopVars, builtVars, out_file, exit_code, SAMPLE_DATA,
                   returned, constVars>>

\* lines 27-28: if not raw_data: return None.
CheckRawData ==
    /\ pc = "check"
    /\ pc' = IF NotRawData(data) THEN "returned_none" ELSE "decode"
    /\ UNCHANGED <<response, data, raised, loopVars, builtVars, processVars, constVars>>

\* lines 30-36.
Decode ==
    /\ pc = "decode"
    /\ raised' = DecodeError(data.result)
    /\ IF DecodeError(data.result) = ""
       THEN pc' = "header" /\ articulations' = data.result.articulations.value
       ELSE pc' = "raised" /\ UNCHANGED articulations
    /\ UNCHANGED <<response, data, dept_i, course_i, course, transfers, builtVars,
                   processVars, constVars>>

\* lines 39-44.
BuildHeader ==
    /\ pc = "header"
    /\ raised' = HeaderError(data.result)
    /\ IF HeaderError(data.result) = ""
       THEN pc' = "loop" /\ simple_data' = Value(Header(data.result))
       ELSE pc' = "raised" /\ UNCHANGED simple_data
    /\ UNCHANGED <<response, data, loopVars, courses_out, parsed, result,
                   processVars, constVars>>

\* main, lines 76-80: get_transfer_data returned None.
MainFailed ==
    /\ pc = "returned_none"
    /\ call = "main"
    /\ stdout' = Append(stdout, "Failed to fetch data from API")
    /\ exit_code' = "0"
    /\ pc' = "exited"
    /\ UNCHANGED <<response, data, raised, loopVars, builtVars, out_file, SAMPLE_DATA,
                   returned, constVars>>

\* main, line 76: get_transfer_data returned simple_data, which is truthy.
MainGotData ==
    /\ pc = "loop_done"
    /\ call = "main"
    /\ result' = Value(SimpleData(simple_data.value, transfers))
    /\ pc' = "built"
    /\ UNCHANGED <<response, data, raised, loopVars, simple_data, courses_out, parsed,
                   processVars, constVars>>

\* store_data_in_file, lines 97-99: SAMPLE_DATA = get_transfer_data(...).
StoreData ==
    /\ pc \in {"returned_none", "loop_done"}
    /\ call = "store_data_in_file"
    /\ SAMPLE_DATA' = IF pc = "loop_done"
                      THEN Value(SimpleData(simple_data.value, transfers))
                      ELSE NoneResult
    /\ returned' = Append(returned, IF pc = "loop_done" THEN "data" ELSE "None")
    /\ pc' = "module"
    /\ UNCHANGED <<response, data, raised, loopVars, builtVars, out_file, exit_code,
                   stdout, constVars>>

\* An exception nobody catches ends main: traceback, exit status 1.
UncaughtInMain ==
    /\ pc = "raised"
    /\ call = "main"
    /\ exit_code' = "1"
    /\ pc' = "exited"
    /\ UNCHANGED <<response, data, raised, loopVars, builtVars, out_file, stdout,
                   SAMPLE_DATA, returned, constVars>>

\* An exception leaves store_data_in_file before the assignment.
UncaughtInStore ==
    /\ pc = "raised"
    /\ call = "store_data_in_file"
    /\ returned' = Append(returned, "raised")
    /\ pc' = "module"
    /\ UNCHANGED <<response, data, raised, loopVars, builtVars, out_file, exit_code,
                   stdout, SAMPLE_DATA, constVars>>

\* The importing program calls store_data_in_file again.
CallAgain ==
    /\ pc = "module"
    /\ Len(returned) < MaxCalls
    /\ pc' = "fetch"
    /\ response' = [status |-> "none", body |-> <<>>]
    /\ data' = <<>>
    /\ articulations' = <<>> /\ dept_i' = 1 /\ course_i' = 1 /\ course' = Idle
    /\ transfers' = <<>> /\ raised' = ""
    /\ simple_data' = NoneResult
    /\ UNCHANGED <<courses_out, parsed, result, processVars, constVars>>

\* GE scripts: one pass of "for c in data.get('courseInformationList', []) or []".
TransformCourse ==
    /\ pc = "transform"
    /\ script \in GEScripts
    /\ course_i <= Len(OrEmptyList(data.courseInformationList))
    /\ LET raw == OrEmptyList(data.courseInformationList)[course_i]
       IN  IF is_currently_approved(Get(raw.endDate), utcnow) = "TypeError"
           THEN raised' = "TypeError" /\ pc' = "raised" /\ UNCHANGED courses_out
           ELSE /\ courses_out' = Append(courses_out, CourseOut(raw, utcnow))
                /\ UNCHANGED <<pc, raised>>
    /\ course_i' = course_i + 1
    /\ UNCHANGED <<response, data, articulations, dept_i, course, transfers, simple_data,
                   parsed, result, processVars, constVars>>

\* GE scripts: the loop is exhausted, the result dict is returned to main.
ReturnGE ==
    /\ pc = "transform"
    /\ script \in GEScripts
    /\ course_i > Len(OrEmptyList(data.courseInformationList))
    /\ result' = Value(GEDict(script, data, courses_out))
    /\ pc' = "built"
    /\ UNCHANGED <<response, data, raised, loopVars, simple_data, courses_out, parsed,
                   processVars, constVars>>

\* get_institutions.py: one element of the list comprehension.
ParseInstitution ==
    /\ pc = "transform"
    /\ script = Institutions
    /\ course_i <= Len(data)
    /\ IF InstError(data[course_i]) # ""
       THEN raised' = InstError(data[course_i]) /\ pc' = "raised" /\ UNCHANGED parsed
       ELSE /\ parsed' = Append(parsed, InstOut(data[course_i]))
            /\ UNCHANGED <<pc, raised>>
    /\ course_i' = course_i + 1
    /\ UNCHANGED <<response, data, articulations, dept_i, course, transfers, simple_data,
                   courses_out, result, processVars, constVars>>

\* get_institutions.py: the comprehension is complete.
ParsedAll ==
    /\ pc = "transform"
    /\ script = Institutions
    /\ course_i > Len(data)
    /\ result' = Value(parsed)
    /\ pc' = "built"
    /\ UNCHANGED <<response, data, raised, loopVars, simple_data, courses_out, parsed,
                   processVars, constVars>>

OpenFileBeforeTransform ==
    /\ pc \in {"transform", "decode"}
    /\ call = "main"
    /\ out_file.state = "untouched"
    /\ out_file' = [state |-> "truncated", content |-> NoneResult]
    /\ UNCHANGED <<pc, response, data, raised, loopVars, builtVars, exit_code, stdout,
                   SAMPLE_DATA, returned, constVars>>

\* open(path, "w"): the file is created or truncated.
OpenFile ==
    /\ pc = "built"
    /\ out_file' = [state |-> "truncated", content |-> NoneResult]
    /\ pc' = "open"
    /\ UNCHANGED <<response, data, raised, loopVars, builtVars, exit_code, stdout,
                   SAMPLE_DATA, returned, constVars>>

\* json.dump(result, f, indent=2) and the end of the with block.
DumpFile ==
    /\ pc = "open"
    /\ out_file' = [state |-> "written", content |-> result]
    /\ pc' = "dumped"
    /\ UNCHANGED <<response, data, raised, loopVars, builtVars, exit_code, stdout,
                   SAMPLE_DATA, returned, constVars>>

\* The summary line, then main returns and the process exits with status 0.
PrintSummary ==
    /\ pc = "dumped"
    /\ stdout' = Append(stdout, "summary")
    /\ exit_code' = "0"
    /\ pc' = "exited"
    /\ UNCHANGED <<response, data, raised, loopVars, builtVars, out_file, SAMPLE_DATA,
                   returned, constVars>>

NextRun ==
    \/ FetchOk \/ FetchRaises \/ FetchSwallowed
    \/ CheckRawData \/ Decode \/ BuildHeader
    \/ Iterate \/ NextDept \/ ReturnTransfers
    \/ MainFailed \/ MainGotData \/ StoreData
    \/ UncaughtInMain \/ UncaughtInStore \/ CallAgain
    \/ TransformCourse \/ ReturnGE \/ ParseInstitution \/ ParsedAll
    \/ OpenFile \/ DumpFile \/ PrintSummary

SpecRun == InitRun /\ [][NextRun]_vars

\* The result main holds has one record for every record of the source.
ResultCovers ==
    /\ ~result.none
    /\ script \in GEScripts =>
         Len(result.value.courses) = Len(OrEmptyList(data.courseInformationList))
    /\ script = Institutions => Len(result.value) = Len(data)
    /\ script = Articulation =>
         /\ articulations = data.result.articulations.value
         /\ Len(result.value.transfers) = Cardinality(CourseEntries)

\* The fetch succeeded and the transformation raised.
TransformFailed == response.status = "ok" /\ raised # ""

\* C2: in every script the output file is opened only after the whole
\* normalized result has been built; when the transformation fails partway
\* the run ends in failure and the file was never created, truncated or
\* written.
C2_NoPartialOutput ==
    /\ out_file.state # "untouched" =>
         /\ pc \in {"open", "dumped", "exited"}
         /\ raised = ""
         /\ ResultCovers
         /\ out_file.state = "written" => out_file.content = result
    /\ TransformFailed => out_file.state = "untouched"
    /\ (TransformFailed /\ pc = "exited") => exit_code = "1"

\* A GE run that built one course and failed on the second.
C2_Witness ==
    /\ pc = "exited"
    /\ script \in GEScripts
    /\ TransformFailed
    /\ Len(courses_out) = 1
    /\ Len(OrEmptyList(data.courseInformationList)) = 2
    /\ out_file.state = "untouched"
    /\ exit_code = "1"

\* C3: in every script a failed HTTP GET ends the run as a failure: the
\* process exits non-zero and writes no output file.
C3_FetchFailureAsStated ==
    (pc = "exited" /\ response.status \in Failures) =>
        /\ exit_code = "1"
        /\ out_file.state = "untouched"

\* The fetch of the articulation script succeeded with a falsy body.
FalsyBody ==
    /\ script = Articulation
    /\ response.status = "ok"
    /\ response.body.json \in FalsyJson

\* The fetch of the articulation script failed inside fetch_api_data, which
\* returned None.
FailedFetch ==
    /\ script = Articulation
    /\ response.status \in Failures
    /\ raised = ""

\* C10: in the articulation script a successful fetch whose body is falsy
\* is handled like a failed fetch: get_transfer_data returns None before it
\* reads raw_data['result'], main prints the failure message, writes no file
\* and returns normally, and store_data_in_file sets SAMPLE_DATA to None
\* even when it held data from an earlier call.
C10_FalsyBody ==
    /\ (FalsyBody /\ pc # "check") =>
         /\ raised = ""
         /\ pc \in {"returned_none", "exited", "module"}
    /\ ((FalsyBody \/ FailedFetch) /\ pc = "exited") =>
         /\ call = "main"
         /\ stdout[Len(stdout)] = "Failed to fetch data from API"
         /\ Len(stdout) = (IF FalsyBody THEN 1 ELSE 2)
         /\ out_file.state = "untouched"
         /\ exit_code = "0"
    /\ ((FalsyBody \/ FailedFetch) /\ pc = "module") =>
         /\ call = "store_data_in_file"
         /\ SAMPLE_DATA.none
         /\ returned[Len(returned)] = "None"

\* A second store_data_in_file call meets a falsy body after the first
\* stored data.
C10_Witness ==
    /\ pc = "module"
    /\ FalsyBody
    /\ returned = <<"data", "None">>
    /\ SAMPLE_DATA.none

====
